---- MODULE Spec2Model ----
(***************************************************************************)
(* Model of the design editor of src/src/pages/Editor.tsx: the fabric      *)
(* canvas of one editing session (objects, active object, drag state of    *)
(* the mouse handlers), the tool actions, save/load of the canvas content  *)
(* and the SVG import (convertSVGToFabric).                                *)
(*                                                                         *)
(* Numbers are JavaScript numbers restricted to the rationals plus NaN:    *)
(* a number is a record [n, d] with d > 0 in lowest terms, NaN is d = 0.   *)
(***************************************************************************)
EXTENDS Integers, Sequences, FiniteSets, TLC

VARIABLES
    objects,        \* canvas.getObjects(): the canvas objects, bottom first
    activeObject,   \* canvas.getActiveObject(): id of the active object, or None
    isDragging,     \* let isDragging (Editor.tsx:490)
    lastPosX,       \* let lastPosX (Editor.tsx:491)
    lastPosY,       \* let lastPosY (Editor.tsx:492)
    selectedObject, \* React state selectedObject (Editor.tsx:449)
    toasts,         \* titles of the toasts the last handler run showed
    uploads,        \* handleImageUpload calls awaiting upload / image load
    content,        \* templates.content of the edited template row
    thumbnail,      \* the parsed SVG thumbnail of the template row, or Null
    canvasSize,     \* <<canvas.width, canvas.height>>
    session,        \* "loading" until loadTemplate has settled, then "ready"
    gesture         \* history: the pointer gesture in progress

vars == <<objects, activeObject, isDragging, lastPosX, lastPosY, selectedObject,
          toasts, uploads, content, thumbnail, canvasSize, session, gesture>>

dragVars == <<isDragging, lastPosX, lastPosY>>
rowVars == <<content, thumbnail, canvasSize>>

None == 0
Null == "null"
\* a templates row without content
NoContent == [content |-> Null]
\* a templates row without an SVG thumbnail
NoThumbnail == [tag |-> Null]

----------------------------------------------------------------------------
(* Bounds of the model *)

\* canvas objects plus image uploads in flight
MaxObjects == 2
\* child elements of the root of an imported SVG document
MaxElements == 2
\* the most tokens of a transform attribute
MaxTokens == 2

----------------------------------------------------------------------------
(* JavaScript numbers *)

NaN == [n |-> 0, d |-> 0]
IsNaN(x) == x.d = 0
Abs(i) == IF i < 0 THEN -i ELSE i

RECURSIVE Gcd(_, _)
Gcd(a, b) == IF b = 0 THEN a ELSE Gcd(b, a % b)

Norm(n, d) == IF d = 1 THEN [n |-> n, d |-> 1]
              ELSE LET g == Gcd(Abs(n), d) IN [n |-> n \div g, d |-> d \div g]
R(i) == [n |-> i, d |-> 1]
Frac(n, d) == Norm(n, d)

Add(x, y) == IF IsNaN(x) \/ IsNaN(y) THEN NaN
             ELSE IF x.d = 1 /\ y.d = 1 THEN [n |-> x.n + y.n, d |-> 1]
             ELSE Norm(x.n * y.d + y.n * x.d, x.d * y.d)
Neg(x) == IF IsNaN(x) THEN NaN ELSE [n |-> -x.n, d |-> x.d]
Sub(x, y) == Add(x, Neg(y))
Mul(x, y) == IF IsNaN(x) \/ IsNaN(y) THEN NaN ELSE Norm(x.n * y.n, x.d * y.d)
\* x / y for y # 0
Div(x, y) == IF IsNaN(x) \/ IsNaN(y) THEN NaN
             ELSE IF y.n < 0 THEN Norm(-(x.n * y.d), -(y.n * x.d))
             ELSE Norm(x.n * y.d, y.n * x.d)
\* x / 2
Half(x) == Div(x, [n |-> 2, d |-> 1])
\* x < y, x > y, x <= y: false when either side is NaN
Lt(x, y) == ~IsNaN(x) /\ ~IsNaN(y) /\ x.n * y.d < y.n * x.d
Gt(x, y) == Lt(y, x)
Le(x, y) == ~IsNaN(x) /\ ~IsNaN(y) /\ x.n * y.d <= y.n * x.d
\* a number used as a condition: 0 and NaN are falsy
Truthy(x) == ~IsNaN(x) /\ x.n # 0
\* Math.min(x, y)
Min(x, y) == IF IsNaN(x) \/ IsNaN(y) THEN NaN ELSE IF Lt(y, x) THEN y ELSE x

----------------------------------------------------------------------------
(* Canvas objects.  An object is a record of fabric properties; "id" stands  *)
(* for the identity of the JavaScript object.                                *)

TextboxHeight == 18
TextLeft == 100
TextTop == 100
TextWidth == 200
ShapeLeft == 150
ShapeTop == 150
ShapeSize == 100
CircleRadius == 50
ShapeStrokeWidth == 2
DefaultStrokeWidth == 1
ImageLeft == 100
ImageTop == 200
ImageMaxWidth == 300
DefaultCanvasWidth == 800
DefaultCanvasHeight == 1000

\* obj.set(props)
Set(obj, props) == props @@ obj

\* the properties every handler of the editor gives a new object, and the
\* object:added handler gives every object added to the canvas
ObjectDefaults ==
    [selectable |-> TRUE, evented |-> TRUE, hasControls |-> TRUE, hasBorders |-> TRUE,
     lockMovementX |-> FALSE, lockMovementY |-> FALSE, lockRotation |-> FALSE,
     lockScalingX |-> FALSE, lockScalingY |-> FALSE, lockUniScaling |-> FALSE,
     hasRotatingPoint |-> TRUE, cornerColor |-> "#3B82F6", cornerSize |-> 10,
     transparentCorners |-> FALSE, borderColor |-> "#3B82F6", borderScaleFactor |-> 2]

\* canvas.on('object:added', ...)
ObjectAdded(obj) == Set(obj, ObjectDefaults)

\* new Textbox('Click to edit text', {...}) of addText
NewTextbox(id) ==
    Set([id |-> id, type |-> "textbox", left |-> R(TextLeft), top |-> R(TextTop),
         width |-> R(TextWidth), height |-> R(TextboxHeight),
         scaleX |-> R(1), scaleY |-> R(1), angle |-> R(0),
         fill |-> "#000", stroke |-> Null, strokeWidth |-> R(DefaultStrokeWidth),
         text |-> "Click to edit text", editable |-> TRUE],
        ObjectDefaults)

\* new Rect({...}) / new FabricCircle({...}) of addShape
NewShape(id, shapeType) ==
    IF shapeType = "rectangle"
    THEN Set([id |-> id, type |-> "rect", left |-> R(ShapeLeft), top |-> R(ShapeTop),
              width |-> R(ShapeSize), height |-> R(ShapeSize),
              scaleX |-> R(1), scaleY |-> R(1), angle |-> R(0),
              fill |-> "#3B82F6", stroke |-> "#1E40AF",
              strokeWidth |-> R(ShapeStrokeWidth)],
             ObjectDefaults)
    ELSE Set([id |-> id, type |-> "circle", left |-> R(ShapeLeft), top |-> R(ShapeTop),
              width |-> R(2 * CircleRadius), height |-> R(2 * CircleRadius),
              radius |-> R(CircleRadius),
              scaleX |-> R(1), scaleY |-> R(1), angle |-> R(0),
              fill |-> "#EF4444", stroke |-> "#DC2626",
              strokeWidth |-> R(ShapeStrokeWidth)],
             ObjectDefaults)

\* new FabricImage(img, {...}) of handleImageUpload, scaled to at most maxWidth
NewImage(id, size) ==
    LET s == IF size[1] > ImageMaxWidth THEN Frac(ImageMaxWidth, size[1]) ELSE R(1)
    IN  [id |-> id, type |-> "image", left |-> R(ImageLeft), top |-> R(ImageTop),
         width |-> R(size[1]), height |-> R(size[2]),
         scaleX |-> s, scaleY |-> s, angle |-> R(0),
         fill |-> "rgb(0,0,0)", stroke |-> Null, strokeWidth |-> R(0),
         selectable |-> TRUE, evented |-> TRUE, crossOrigin |-> "anonymous"]

Ids(objs) == {objs[i].id : i \in DOMAIN objs}
\* a fresh object identity
NewId(objs) == CHOOSE i \in 1..(Len(objs) + 1) :
                   i \notin Ids(objs) /\ \A j \in 1..(i - 1) : j \in Ids(objs)

\* canvas.add(obj): the object goes on top and object:added fires
CanvasAdd(objs, obj) == Append(objs, ObjectAdded(obj))

\* CanvasRemove when the topmost object is removed instead
CanvasRemove_Top(objs, id) == SubSeq(objs, 1, Len(objs) - 1)

\* canvas.remove(obj)
CanvasRemove(objs, id) == SelectSeq(objs, LAMBDA o : o.id # id)

\* ActiveAfterRemove when the removal keeps the selection
ActiveAfterRemove_Kept(active, id) == active

\* the active object after canvas.remove(obj): removing the active object
\* discards the selection
ActiveAfterRemove(active, id) == IF active = id THEN None ELSE active

\* the scaled extent of an object, stroke included
ScaledWidth(o) == Mul(Add(o.width, o.strokeWidth), o.scaleX)
ScaledHeight(o) == Mul(Add(o.height, o.strokeWidth), o.scaleY)

ContainsPoint(o, p) ==
    /\ Le(o.left, R(p[1])) /\ Le(R(p[1]), Add(o.left, ScaledWidth(o)))
    /\ Le(o.top, R(p[2])) /\ Le(R(p[2]), Add(o.top, ScaledHeight(o)))

\* canvas.findTarget(e): the topmost evented object under the pointer
FindTarget(objs, p) ==
    LET hits == {i \in DOMAIN objs : objs[i].evented /\ ContainsPoint(objs[i], p)}
    IN  IF hits = {} THEN None
        ELSE objs[CHOOSE i \in hits : \A j \in hits : j <= i].id

\* the pointer positions of the model
Points == {<<20, 40>>, <<200, 220>>}
\* the natural sizes of the uploaded images
ImageSizes == {<<200, 100>>, <<600, 300>>}

----------------------------------------------------------------------------
(* The pointer handlers of initializeFabric *)

\* history of a gesture: the object hit by the pointer-down that started it, the
\* pointer-down point and the object's position at that time; NoGesture when no
\* pointer-down hit an object, or another handler ran since
NoGesture == [id |-> None, startX |-> 0, startY |-> 0, left |-> R(0), top |-> R(0)]

Node(objs, id) == objs[CHOOSE i \in DOMAIN objs : objs[i].id = id]

\* MoveBy when the move is applied to every object of the canvas
MoveBy_All(objs, id, deltaX, deltaY) ==
    [i \in DOMAIN objs |->
        [objs[i] EXCEPT !.left = Add(@, deltaX), !.top = Add(@, deltaY)]]

\* activeObject.set({left: left + deltaX, top: top + deltaY})
MoveBy(objs, id, deltaX, deltaY) ==
    [i \in DOMAIN objs |->
        IF objs[i].id = id
        THEN [objs[i] EXCEPT !.left = Add(@, deltaX), !.top = Add(@, deltaY)]
        ELSE objs[i]]

\* MouseDown when the handler does not record the pointer-down point
MouseDown_NoLastPos(p) ==
    LET target == FindTarget(objects, p) IN
    /\ IF target # None
       THEN /\ isDragging' = TRUE
            /\ UNCHANGED <<lastPosX, lastPosY>>
            /\ activeObject' = target
            /\ gesture' = [id |-> target, startX |-> p[1], startY |-> p[2],
                           left |-> Node(objects, target).left,
                           top |-> Node(objects, target).top]
       ELSE /\ UNCHANGED <<dragVars, activeObject>>
            /\ gesture' = NoGesture
    /\ toasts' = <<>>
    /\ UNCHANGED <<objects, selectedObject, uploads, rowVars, session>>

\* MouseDown when the handler also records the type of the object hit as the
\* selected one
MouseDown_Selects(p) ==
    LET target == FindTarget(objects, p) IN
    /\ IF target # None
       THEN /\ isDragging' = TRUE
            /\ lastPosX' = p[1]
            /\ lastPosY' = p[2]
            /\ activeObject' = target
            /\ selectedObject' = Node(objects, target).type
            /\ gesture' = [id |-> target, startX |-> p[1], startY |-> p[2],
                           left |-> Node(objects, target).left,
                           top |-> Node(objects, target).top]
       ELSE /\ UNCHANGED <<dragVars, activeObject, selectedObject>>
            /\ gesture' = NoGesture
    /\ toasts' = <<>>
    /\ UNCHANGED <<objects, uploads, rowVars, session>>

\* canvas.on('mouse:down', ...)
MouseDown(p) ==
    LET target == FindTarget(objects, p) IN
    /\ IF target # None
       THEN /\ isDragging' = TRUE
            /\ lastPosX' = p[1]
            /\ lastPosY' = p[2]
            /\ activeObject' = target
            /\ gesture' = [id |-> target, startX |-> p[1], startY |-> p[2],
                           left |-> Node(objects, target).left,
                           top |-> Node(objects, target).top]
       ELSE /\ UNCHANGED <<dragVars, activeObject>>
            /\ gesture' = NoGesture
    /\ toasts' = <<>>
    /\ UNCHANGED <<objects, selectedObject, uploads, rowVars, session>>

\* canvas.on('mouse:move', ...)
MouseMove(p) ==
    /\ IF isDragging /\ activeObject # None
       THEN /\ objects' = MoveBy(objects, activeObject,
                                 R(p[1] - lastPosX), R(p[2] - lastPosY))
            /\ lastPosX' = p[1]
            /\ lastPosY' = p[2]
       ELSE UNCHANGED <<objects, lastPosX, lastPosY>>
    /\ toasts' = <<>>
    /\ UNCHANGED <<isDragging, activeObject, selectedObject, uploads, rowVars,
                   session, gesture>>

\* MouseUp when the handler leaves isDragging set
MouseUp_KeepDragging ==
    /\ gesture' = NoGesture
    /\ toasts' = <<>>
    /\ UNCHANGED <<objects, activeObject, dragVars, selectedObject,
                   uploads, rowVars, session>>

\* canvas.on('mouse:up', ...)
MouseUp ==
    /\ isDragging' = FALSE
    /\ gesture' = NoGesture
    /\ toasts' = <<>>
    /\ UNCHANGED <<objects, activeObject, lastPosX, lastPosY, selectedObject,
                   uploads, rowVars, session>>

----------------------------------------------------------------------------
(* The tool actions *)

\* addText
AddText ==
    /\ Len(objects) + uploads < MaxObjects
    /\ LET text == NewTextbox(NewId(objects)) IN
       /\ objects' = CanvasAdd(objects, text)
       /\ activeObject' = text.id
    /\ toasts' = <<"Text Added">>
    /\ gesture' = NoGesture
    /\ UNCHANGED <<dragVars, selectedObject, uploads, rowVars, session>>

\* addShape
AddShape(shapeType) ==
    /\ Len(objects) + uploads < MaxObjects
    /\ LET shape == NewShape(NewId(objects), shapeType) IN
       /\ objects' = CanvasAdd(objects, shape)
       /\ activeObject' = shape.id
    /\ toasts' = <<"Shape Added">>
    /\ gesture' = NoGesture
    /\ UNCHANGED <<dragVars, selectedObject, uploads, rowVars, session>>

\* handleImageUpload up to its first await: a file was chosen
HandleImageUpload ==
    /\ Len(objects) + uploads < MaxObjects
    /\ uploads' = uploads + 1
    /\ toasts' = <<>>
    /\ UNCHANGED <<objects, activeObject, dragVars, selectedObject, rowVars,
                   session, gesture>>

\* handleImageUpload after the upload, the signed URL and the image load succeeded
ImageLoaded(size) ==
    /\ uploads > 0
    /\ Len(objects) < MaxObjects
    /\ uploads' = uploads - 1
    /\ LET fabricImage == NewImage(NewId(objects), size) IN
       /\ objects' = CanvasAdd(objects, fabricImage)
       /\ activeObject' = fabricImage.id
    /\ toasts' = <<"Image Added">>
    /\ gesture' = NoGesture
    /\ UNCHANGED <<dragVars, selectedObject, rowVars, session>>

\* ImageFailed when the failure also discards the active object
ImageFailed_Discards ==
    /\ uploads > 0
    /\ uploads' = uploads - 1
    /\ activeObject' = None
    /\ toasts' = <<"Upload Error">>
    /\ gesture' = NoGesture
    /\ UNCHANGED <<objects, dragVars, selectedObject, rowVars, session>>

\* handleImageUpload when the upload, the signed URL or the image load failed
ImageFailed ==
    /\ uploads > 0
    /\ uploads' = uploads - 1
    /\ toasts' = <<"Upload Error">>
    /\ gesture' = NoGesture
    /\ UNCHANGED <<objects, activeObject, dragVars, selectedObject, rowVars, session>>

\* deleteSelected
DeleteSelected ==
    /\ IF activeObject = None
       THEN /\ toasts' = <<"Nothing Selected">>
            /\ UNCHANGED <<objects, activeObject, selectedObject>>
       ELSE /\ objects' = CanvasRemove(objects, activeObject)
            /\ activeObject' = ActiveAfterRemove(activeObject, activeObject)
            /\ selectedObject' = Null
            /\ toasts' = <<"Object Deleted">>
    /\ gesture' = NoGesture
    /\ UNCHANGED <<dragVars, uploads, rowVars, session>>

----------------------------------------------------------------------------
(* The SVG import: convertSVGToFabric.  An element is a record of its tag,   *)
(* its attributes (Null when absent), the declarations of its style          *)
(* attribute, its computed style and its children.  A transform attribute is *)
(* the sequence of its tokens name(args).                                    *)

\* a string used as a condition: an absent attribute and "" are falsy
StrTruthy(str) == str # Null /\ str # ""
\* a || b on strings
Or(a, b) == IF StrTruthy(a) THEN a ELSE b

\* parseFloat on the attribute values of the model
ParseFloat(str) ==
    CASE str = "0" -> R(0)
      [] str = "1" -> R(1)
      [] str = "2" -> R(2)
      [] str = "0.5" -> Frac(1, 2)
      [] OTHER -> NaN

\* NumOr when the default is always 0
NumOr_Zero(x, dflt) == IF Truthy(x) THEN x ELSE R(0)

\* x || dflt on numbers
NumOr(x, dflt) == IF Truthy(x) THEN x ELSE dflt

\* getComputedStyle of convertSVGToFabric
GetComputedStyle(element) ==
    LET style == element.computed
        fill == Or(element.attrs.fill, style.fill)
        stroke == Or(element.attrs.stroke, style.stroke)
        strokeWidth == Or(element.attrs.strokeWidth, style.strokeWidth)
        opacity == Or(element.attrs.opacity, style.opacity)
        fillOpacity == Or(element.attrs.fillOpacity, style.fillOpacity)
        parsedStyle == element.style
    IN  [fill |-> IF StrTruthy(parsedStyle.fill) \/ fill # "none"
                  THEN fill ELSE "transparent",
         stroke |-> IF StrTruthy(parsedStyle.stroke) \/ stroke # "none"
                    THEN stroke ELSE "transparent",
         strokeWidth |-> NumOr(ParseFloat(Or(parsedStyle.strokeWidth, strokeWidth)), R(0)),
         opacity |-> NumOr(ParseFloat(Or(parsedStyle.opacity, opacity)), R(1)),
         fillOpacity |-> NumOr(ParseFloat(Or(parsedStyle.fillOpacity, fillOpacity)), R(1)),
         transform |-> element.transform]

\* transform.split(')'): every token loses its closing parenthesis, and the
\* text after the last one is a chunk of its own
SplitParen(transform) ==
    [i \in 1..(Len(transform) + 1) |->
        IF i <= Len(transform)
        THEN [name |-> transform[i].name, args |-> transform[i].args, closed |-> FALSE]
        ELSE [name |-> "", args |-> <<>>, closed |-> FALSE]]

\* t.match(/name\(([^)]+)\)/)?.[1].split(/[\s,]+/).map(Number) || dflt: the
\* pattern needs the closing parenthesis
MatchArgs(t, dflt) == IF t.closed /\ t.args # <<>> THEN t.args ELSE dflt

\* an element of a destructured array: undefined (NaN in arithmetic, falsy)
\* beyond its end
Arg(args, i) == IF i <= Len(args) THEN args[i] ELSE NaN

\* Math.cos and Math.sin of an angle in degrees, on the quarter turns
Cos(angle) == CASE angle.n % 360 = 0 -> R(1)
                [] angle.n % 360 = 180 -> R(-1)
                [] OTHER -> R(0)
Sin(angle) == CASE angle.n % 360 = 90 -> R(1)
                [] angle.n % 360 = 270 -> R(-1)
                [] OTHER -> R(0)
\* Math.atan2(b, a) * (180 / Math.PI), on the axes
Atan2Deg(b, a) == CASE b.n = 0 /\ a.n >= 0 -> R(0)
                    [] b.n = 0 /\ a.n < 0 -> R(180)
                    [] b.n > 0 -> R(90)
                    [] OTHER -> R(-90)

Identity == [a |-> R(1), b |-> R(0), c |-> R(0), d |-> R(1), e |-> R(0), f |-> R(0)]

\* one step of transforms.forEach of parseTransform
ApplyToken(matrix, t) ==
    IF t.name = "translate"
    THEN LET xy == MatchArgs(t, <<R(0), R(0)>>) IN
         [matrix EXCEPT !.e = Add(@, Arg(xy, 1)), !.f = Add(@, Arg(xy, 2))]
    ELSE IF t.name = "scale"
    THEN LET xy == MatchArgs(t, <<R(1), R(1)>>) IN
         [matrix EXCEPT !.a = Mul(@, Arg(xy, 1)), !.d = Mul(@, Arg(xy, 2))]
    ELSE IF t.name = "rotate"
    THEN LET args == MatchArgs(t, <<R(0), R(0), R(0)>>)
             angle == Arg(args, 1)
             cx == Arg(args, 2)
             cy == Arg(args, 3)
             cos == Cos(angle)
             sin == Sin(angle)
             m == [matrix EXCEPT !.a = cos, !.b = sin, !.c = Neg(sin), !.d = cos]
         IN  IF Truthy(cx) \/ Truthy(cy)
             THEN [m EXCEPT !.e = Sub(cx, Sub(Mul(cx, cos), Mul(cy, sin))),
                            !.f = Sub(cy, Add(Mul(cx, sin), Mul(cy, cos)))]
             ELSE m
    ELSE matrix

RECURSIVE ApplyTokens(_, _)
ApplyTokens(matrix, ts) ==
    IF ts = <<>> THEN matrix ELSE ApplyTokens(ApplyToken(matrix, Head(ts)), Tail(ts))

\* parseTransform
ParseTransform(transform) ==
    IF transform = <<>> THEN Identity ELSE ApplyTokens(Identity, SplitParen(transform))

\* obj.set({fill: style.fill, ..., borderScaleFactor: 2}) of applyCommonProperties
SetStyle(obj, style) ==
    Set(obj, Set(ObjectDefaults,
                 [fill |-> style.fill, stroke |-> style.stroke,
                  strokeWidth |-> style.strokeWidth, opacity |-> style.opacity,
                  fillOpacity |-> style.fillOpacity]))

\* obj.set({scaleX: transform.a * scale, ..., top: transform.f * scale}) of
\* applyCommonProperties; the matrix parseTransform returns is always truthy
SetTransform(obj, transform, scale) ==
    Set(obj, [scaleX |-> Mul(transform.a, scale),
              scaleY |-> Mul(transform.d, scale),
              angle |-> Atan2Deg(transform.b, transform.a),
              left |-> Mul(transform.e, scale),
              top |-> Mul(transform.f, scale)])

\* applyCommonProperties
ApplyCommonProperties(obj, element, scale) ==
    SetTransform(SetStyle(obj, GetComputedStyle(element)),
                 ParseTransform(GetComputedStyle(element).transform), scale)

\* the null createPath returns
NoObject == [type |-> Null]

\* new Path(pathData, {...}), new Rect({...}), new FabricCircle({...}),
\* new Textbox(text, {...}) of the create functions
Constructed(element) ==
    LET g == element.geometry IN
    CASE element.tag = "path" ->
           [type |-> "path", path |-> element.d, left |-> g.x, top |-> g.y,
            width |-> g.width, height |-> g.height]
      [] element.tag = "rect" ->
           [type |-> "rect", left |-> g.x, top |-> g.y,
            width |-> g.width, height |-> g.height]
      [] element.tag = "circle" ->
           [type |-> "circle", left |-> Sub(g.x, g.r), top |-> Sub(g.y, g.r),
            radius |-> g.r, width |-> Mul(R(2), g.r), height |-> Mul(R(2), g.r)]
      [] element.tag = "text" ->
           [type |-> "textbox", text |-> element.text, left |-> g.x, top |-> g.y,
            width |-> g.width, height |-> g.height, editable |-> TRUE]

\* createPath, createRect, createCircle, createText: the object of a leaf
\* element, NoObject when none is made
CreateObject(element, scale) ==
    IF element.tag = "path" /\ element.d = Null THEN NoObject
    ELSE ApplyCommonProperties(Constructed(element), element, scale)

RECURSIVE ProcessElement(_, _)
\* ProcessElement when a g element is not entered
ProcessElement_GNotEntered(element, scale) ==
    LET RECURSIVE ForEach(_)
        ForEach(children) ==
            IF children = <<>> THEN <<>>
            ELSE ProcessElement(Head(children), scale) \o ForEach(Tail(children))
    IN  IF element.computed.display = "none" \/ element.computed.visibility = "hidden"
        THEN <<>>
        ELSE IF element.tag \in {"defs", "svg"}
        THEN ForEach(element.children)
        ELSE IF element.tag \in {"path", "rect", "circle", "text"}
        THEN LET obj == CreateObject(element, scale) IN
             IF obj = NoObject THEN <<>> ELSE <<obj>>
        ELSE <<>>

\* ProcessElement when only display:none is taken as hidden
ProcessElement_DisplayOnly(element, scale) ==
    LET RECURSIVE ForEach(_)
        ForEach(children) ==
            IF children = <<>> THEN <<>>
            ELSE ProcessElement(Head(children), scale) \o ForEach(Tail(children))
    IN  IF element.computed.display = "none"
        THEN <<>>
        ELSE IF element.tag \in {"defs", "g", "svg"}
        THEN ForEach(element.children)
        ELSE IF element.tag \in {"path", "rect", "circle", "text"}
        THEN LET obj == CreateObject(element, scale) IN
             IF obj = NoObject THEN <<>> ELSE <<obj>>
        ELSE <<>>

\* processElement: the objects an element and its descendants push, in order
ProcessElement(element, scale) ==
    LET RECURSIVE ForEach(_)
        ForEach(children) ==
            IF children = <<>> THEN <<>>
            ELSE ProcessElement(Head(children), scale) \o ForEach(Tail(children))
    IN  IF element.computed.display = "none" \/ element.computed.visibility = "hidden"
        THEN <<>>
        ELSE IF element.tag \in {"defs", "g", "svg"}
        THEN ForEach(element.children)
        ELSE IF element.tag \in {"path", "rect", "circle", "text"}
        THEN LET obj == CreateObject(element, scale) IN
             IF obj = NoObject THEN <<>> ELSE <<obj>>
        ELSE <<>>

\* the scale of convertSVGToFabric that fits the SVG to the canvas
FitScale(svgElement, canvas) ==
    LET svgWidth == svgElement.width
        svgHeight == svgElement.height
        viewBox == svgElement.viewBox
        Fit(w, h) ==
            LET scaleX == Div(R(canvas[1]), w)
                scaleY == Div(R(canvas[2]), h)
            IN  Mul(Min(scaleX, scaleY), Frac(8, 10))
    IN  IF viewBox # <<>>
        THEN IF Truthy(Arg(viewBox, 3)) /\ Truthy(Arg(viewBox, 4))
             THEN Fit(Arg(viewBox, 3), Arg(viewBox, 4))
             ELSE R(1)
        ELSE IF Truthy(svgWidth) /\ Truthy(svgHeight)
             THEN Fit(svgWidth, svgHeight)
             ELSE R(1)

\* the bounding box [left, top, width, height] a new Group takes from its objects
RECURSIVE MinOf(_, _)
MinOf(xs, m) == IF xs = <<>> THEN m
                ELSE MinOf(Tail(xs), IF Lt(Head(xs), m) THEN Head(xs) ELSE m)
RECURSIVE MaxOf(_, _)
MaxOf(xs, m) == IF xs = <<>> THEN m
                ELSE MaxOf(Tail(xs), IF Gt(Head(xs), m) THEN Head(xs) ELSE m)

GroupBounds(objs) ==
    LET lefts == [i \in DOMAIN objs |-> objs[i].left]
        tops == [i \in DOMAIN objs |-> objs[i].top]
        rights == [i \in DOMAIN objs |-> Add(objs[i].left, ScaledWidth(objs[i]))]
        bottoms == [i \in DOMAIN objs |-> Add(objs[i].top, ScaledHeight(objs[i]))]
        left == MinOf(Tail(lefts), Head(lefts))
        top == MinOf(Tail(tops), Head(tops))
    IN  [left |-> left, top |-> top,
         width |-> Sub(MaxOf(Tail(rights), Head(rights)), left),
         height |-> Sub(MaxOf(Tail(bottoms), Head(bottoms)), top)]

\* a group of objects with their bounding box
BoundedGroup(objs, bounds) ==
    Set([type |-> "group", objects |-> objs,
         left |-> bounds.left, top |-> bounds.top,
         width |-> bounds.width, height |-> bounds.height,
         scaleX |-> R(1), scaleY |-> R(1), angle |-> R(0),
         fill |-> "rgb(0,0,0)", stroke |-> Null, strokeWidth |-> R(0)],
        ObjectDefaults)

\* new Group(objs, {...}): the group takes the bounding box of its objects
GroupOf(objs) == BoundedGroup(objs, GroupBounds(objs))

\* Centred when the centring takes the unscaled extent of the group
Centred_Unscaled(group, scale, canvas) ==
    Set(group, [scaleX |-> scale, scaleY |-> scale,
                left |-> Half(Sub(R(canvas[1]), group.width)),
                top |-> Half(Sub(R(canvas[2]), group.height))])

\* group.scale(scale); group.set({left: (canvas.width - group.width * scale) / 2,
\* top: (canvas.height - group.height * scale) / 2})
Centred(group, scale, canvas) ==
    Set(group, [scaleX |-> scale, scaleY |-> scale,
                left |-> Half(Sub(R(canvas[1]), Mul(group.width, scale))),
                top |-> Half(Sub(R(canvas[2]), Mul(group.height, scale)))])

\* the group convertSVGToFabric makes of the objects
NewGroup(objs, scale, canvas) == Centred(GroupOf(objs), scale, canvas)

\* Returned when the objects pushed are returned as they are
Returned_Ungrouped(objs, scale, canvas) == objs

\* the value convertSVGToFabric returns for the objects pushed
Returned(objs, scale, canvas) ==
    IF Len(objs) > 0 THEN <<NewGroup(objs, scale, canvas)>> ELSE objs

\* convertSVGToFabric
ConvertSVGToFabric(svgElement, canvas) ==
    Returned(ProcessElement(svgElement, FitScale(svgElement, canvas)),
             FitScale(svgElement, canvas), canvas)

----------------------------------------------------------------------------
(* Saving and loading the canvas content *)

\* the properties handleSave passes to canvas.toJSON
PropertiesToInclude ==
    {"selectable", "evented", "hasControls", "hasBorders",
     "lockMovementX", "lockMovementY", "lockRotation", "lockScalingX", "lockScalingY",
     "lockUniScaling", "hasRotatingPoint", "cornerColor", "cornerSize",
     "transparentCorners", "borderColor", "borderScaleFactor", "editable"}

\* the properties canvas.toJSON writes for every object of a type
StateProperties(type) ==
    {"type", "left", "top", "width", "height", "scaleX", "scaleY", "angle",
     "fill", "stroke", "strokeWidth"}
    \cup (CASE type = "textbox" -> {"text"}
            [] type = "circle" -> {"radius"}
            [] type = "image" -> {"crossOrigin"}
            [] type = "group" -> {"objects"}
            [] OTHER -> {})

\* object.toObject(propertiesToInclude) of canvas.toJSON
RECURSIVE ToObject(_)
ToObject(o) ==
    [k \in (StateProperties(o.type) \cup PropertiesToInclude) \cap DOMAIN o |->
        IF k = "objects"
        THEN [i \in DOMAIN o.objects |-> ToObject(o.objects[i])]
        ELSE o[k]]

\* fabricCanvas.toJSON([...]) of handleSave
ToJSON(objs) == [i \in DOMAIN objs |-> ToObject(objs[i])]

\* canvas.loadFromJSON(data.content, callback) of loadTemplate: the canvas is
\* cleared, every saved object is revived and added (object:added fires), then
\* the callback sets selectable, evented and crossOrigin on every canvas object
LoadFromJSON(doc) ==
    [i \in DOMAIN doc |->
        Set(ObjectAdded(Set(doc[i], [id |-> i])),
            [selectable |-> TRUE, evented |-> TRUE, crossOrigin |-> "anonymous"])]

\* handleSave when the update of the templates row succeeds
HandleSave ==
    /\ content' = [objects |-> ToJSON(objects)]
    /\ toasts' = <<"Saved!">>
    /\ gesture' = NoGesture
    /\ UNCHANGED <<objects, activeObject, dragVars, selectedObject, uploads,
                   thumbnail, canvasSize, session>>

\* handleSave when the update of the templates row fails
HandleSaveError ==
    /\ toasts' = <<"Save Error">>
    /\ gesture' = NoGesture
    /\ UNCHANGED <<objects, activeObject, dragVars, selectedObject, uploads,
                   rowVars, session>>

\* handleDownload with an initialized canvas: context tells whether getContext
\* gave a 2d context, blob is what toBlob hands to its callback.  Without a
\* context the handler throws and reports the error; with a null blob the
\* promise it awaits is never resolved, nor rejected, and nothing is reported
HandleDownload(context, blob) ==
    /\ toasts' = IF ~context THEN <<"Download Error">>
                 ELSE IF blob # Null THEN <<"Download Complete">>
                 ELSE <<>>
    /\ gesture' = NoGesture
    /\ UNCHANGED <<objects, activeObject, dragVars, selectedObject, uploads,
                   rowVars, session>>

\* the session after loadTemplate has returned: setIsLoading(false) is called
\* unless the effect was cleaned up in the meantime
Finished(s) == IF s = "loading" THEN "ready" ELSE "abandoned"

\* the cleanup of the effect while loadTemplate is pending: disposed = true; the
\* fabricCanvas of the effect's closure is null, so the canvas stays as it is
Cleanup ==
    /\ session = "loading"
    /\ session' = "disposed"
    /\ UNCHANGED <<objects, activeObject, dragVars, selectedObject, toasts, uploads,
                   rowVars, gesture>>

\* the templateId of the route changes after loadTemplate has returned: the
\* cleanup of the first effect runs with the fabricCanvas of its closure, which
\* is null, and the effect returns at once because canvasInitialized.current is
\* still true; the canvas, isLoading and the toasts stay as they are
ChangeTemplate(row) ==
    /\ session = "ready"
    /\ <<content, thumbnail>> # <<row.content, row.thumbnail>>
    /\ content' = row.content
    /\ thumbnail' = row.thumbnail
    /\ UNCHANGED <<objects, activeObject, dragVars, selectedObject, toasts, uploads,
                   canvasSize, session, gesture>>

\* loadTemplate of initializeFabric, for a template row with content or with
\* neither content nor an SVG thumbnail, followed by the 'Editor Ready' toast
LoadTemplate ==
    /\ session \in {"loading", "disposed"}
    /\ thumbnail = NoThumbnail
    /\ IF content # NoContent
       THEN /\ objects' = LoadFromJSON(content.objects)
            /\ activeObject' = None
       ELSE UNCHANGED <<objects, activeObject>>
    /\ session' = Finished(session)
    /\ toasts' = <<"Editor Ready">>
    /\ gesture' = NoGesture
    /\ UNCHANGED <<dragVars, selectedObject, uploads, rowVars>>

\* loadTemplate when the fetch of the templates row fails
LoadTemplateError ==
    /\ session \in {"loading", "disposed"}
    /\ session' = Finished(session)
    /\ toasts' = <<"Template Error", "Editor Ready">>
    /\ gesture' = NoGesture
    /\ UNCHANGED <<objects, activeObject, dragVars, selectedObject, uploads, rowVars>>

\* fabricObjects.forEach(obj => canvas.add(obj))
RECURSIVE CanvasAddAll(_, _)
CanvasAddAll(objs, new) ==
    IF new = <<>> THEN objs
    ELSE CanvasAddAll(CanvasAdd(objs, Set(Head(new), [id |-> NewId(objs)])), Tail(new))

\* ImportToasts when an empty conversion is not reported
ImportToasts_NoWarning(fabricObjects) == <<"Editor Ready">>

\* the toasts of loadTemplate and of initializeFabric after the conversion
ImportToasts(fabricObjects) ==
    IF Len(fabricObjects) = 0 THEN <<"Warning", "Editor Ready">> ELSE <<"Editor Ready">>

\* the canvas objects after loadTemplate has added the converted objects: more
\* than one are added, removed again and added as one group
Imported(objs, fabricObjects) ==
    IF Len(fabricObjects) > 1
    THEN CanvasAdd(objs, Set(GroupOf(fabricObjects), [id |-> NewId(objs)]))
    ELSE CanvasAddAll(objs, fabricObjects)

\* LoadTemplateSvg when parseSVG does not look at the root element's tag
LoadTemplateSvg_NoRootCheck(fetched) ==
    /\ session \in {"loading", "disposed"}
    /\ content = NoContent
    /\ thumbnail # NoThumbnail
    /\ IF ~fetched
       THEN /\ toasts' = <<"SVG Conversion Error", "Editor Ready">>
            /\ UNCHANGED objects
       ELSE /\ toasts' = ImportToasts(ConvertSVGToFabric(thumbnail, canvasSize))
            /\ objects' = Imported(objects, ConvertSVGToFabric(thumbnail, canvasSize))
    /\ session' = Finished(session)
    /\ gesture' = NoGesture
    /\ UNCHANGED <<activeObject, dragVars, selectedObject, uploads, rowVars>>

\* loadTemplate of initializeFabric for a template row without content and
\* with an SVG thumbnail, which parseSVG fetches (fetched) and parses, followed
\* by the 'Editor Ready' toast
LoadTemplateSvg(fetched) ==
    /\ session \in {"loading", "disposed"}
    /\ content = NoContent
    /\ thumbnail # NoThumbnail
    /\ IF ~fetched \/ thumbnail.tag # "svg"
       THEN /\ toasts' = <<"SVG Conversion Error", "Editor Ready">>
            /\ UNCHANGED objects
       ELSE /\ toasts' = ImportToasts(ConvertSVGToFabric(thumbnail, canvasSize))
            /\ objects' = Imported(objects, ConvertSVGToFabric(thumbnail, canvasSize))
    /\ session' = Finished(session)
    /\ gesture' = NoGesture
    /\ UNCHANGED <<activeObject, dragVars, selectedObject, uploads, rowVars>>

----------------------------------------------------------------------------
(* The SVG documents of the model *)

NoAttrs == [fill |-> Null, stroke |-> Null, strokeWidth |-> Null, opacity |-> Null,
            fillOpacity |-> Null]
NoStyle == NoAttrs
Shown == [fill |-> "rgb(0, 0, 0)", stroke |-> "none", strokeWidth |-> "1",
          opacity |-> "1", fillOpacity |-> "1",
          display |-> "inline", visibility |-> "visible"]
NoGeometry == [x |-> R(0), y |-> R(0), width |-> R(0), height |-> R(0), r |-> R(0)]

Element(tag, geometry, transform, attrs, computed, children) ==
    [tag |-> tag, geometry |-> geometry, transform |-> transform, attrs |-> attrs,
     style |-> NoStyle, computed |-> computed, children |-> children,
     d |-> IF tag = "path" THEN "M0 0 L40 30" ELSE Null,
     text |-> IF tag = "text" THEN "Title" ELSE Null]

Token(name, args) == [name |-> name, args |-> args]

RectElement ==
    Element("rect", [NoGeometry EXCEPT !.x = R(10), !.y = R(20), !.width = R(100),
                                       !.height = R(50)],
            <<Token("translate", <<R(10), R(0)>>)>>,
            [NoAttrs EXCEPT !.fill = "red", !.strokeWidth = "2"], Shown, <<>>)
CircleElement ==
    Element("circle", [NoGeometry EXCEPT !.x = R(50), !.y = R(50), !.r = R(25)],
            <<>>, [NoAttrs EXCEPT !.fill = "none"], Shown, <<>>)
TextElement ==
    Element("text", [NoGeometry EXCEPT !.x = R(5), !.y = R(15), !.width = R(80),
                                       !.height = R(18)],
            <<Token("scale", <<R(2)>>)>>, NoAttrs, Shown, <<>>)
PathElement ==
    Element("path", [NoGeometry EXCEPT !.width = R(40), !.height = R(30)],
            <<Token("rotate", <<R(90)>>)>>, NoAttrs, Shown, <<>>)
PathWithoutData == [PathElement EXCEPT !.d = Null]
HiddenRectElement == [RectElement EXCEPT !.computed.display = "none"]
EllipseElement == Element("ellipse", NoGeometry, <<>>, NoAttrs, Shown, <<>>)
GElement == Element("g", NoGeometry, <<>>, NoAttrs, Shown, <<CircleElement, PathElement>>)
\* a group with visibility:hidden around a rect
HiddenGElement ==
    Element("g", NoGeometry, <<>>, NoAttrs, [Shown EXCEPT !.visibility = "hidden"],
            <<RectElement>>)
\* a rect whose style attribute declares a fill and a stroke-width other than
\* those of its presentation attributes
StyledRectElement ==
    [RectElement EXCEPT !.style.fill = "blue", !.style.strokeWidth = "0.5"]

Elements == {RectElement, CircleElement, TextElement, PathElement, PathWithoutData,
             HiddenRectElement, EllipseElement, GElement, HiddenGElement,
             StyledRectElement}

RECURSIVE SeqsUpTo(_, _)
SeqsUpTo(S, n) ==
    IF n = 0 THEN {<<>>}
    ELSE LET shorter == SeqsUpTo(S, n - 1) IN
         shorter \cup {Append(q, e) : q \in shorter, e \in S}

\* the document elements parseSVG may hand to convertSVGToFabric or refuse
SvgDocuments ==
    {Set(Element("svg", NoGeometry, <<>>, NoAttrs, Shown, children),
         [width |-> size[1], height |-> size[2], viewBox |-> viewBox]) :
       children \in SeqsUpTo(Elements, MaxElements),
       size \in {<<R(0), R(0)>>, <<R(200), R(100)>>},
       viewBox \in {<<>>, <<R(0), R(0), R(100), R(50)>>, <<R(0), R(0), R(0), R(0)>>}}
    \cup {Set(Element(tag, NoGeometry, <<>>, NoAttrs, computed, <<RectElement>>),
               [width |-> R(200), height |-> R(100), viewBox |-> <<>>]) :
             tag \in {"svg", "html"},
             computed \in {Shown, [Shown EXCEPT !.visibility = "hidden"]}}

CanvasSizes == {<<DefaultCanvasWidth, DefaultCanvasHeight>>, <<600, 400>>}

\* the Editor is mounted anew: a new canvas, new handlers, an image upload of the
\* old Editor no longer reaches this canvas
OpenEditor ==
    /\ session = "ready"
    /\ objects' = <<>>
    /\ activeObject' = None
    /\ isDragging' = FALSE
    /\ lastPosX' = 0
    /\ lastPosY' = 0
    /\ selectedObject' = Null
    /\ toasts' = <<>>
    /\ uploads' = 0
    /\ session' = "loading"
    /\ gesture' = NoGesture
    /\ UNCHANGED rowVars

\* a rect saved elsewhere: moved, not selectable, with a lock flag set
StoredRect ==
    [type |-> "rect", left |-> R(30), top |-> R(40), width |-> R(ShapeSize),
     height |-> R(ShapeSize), scaleX |-> Frac(1, 2), scaleY |-> Frac(1, 2),
     angle |-> R(0), fill |-> "#3B82F6", stroke |-> "#1E40AF",
     strokeWidth |-> R(ShapeStrokeWidth),
     selectable |-> FALSE, evented |-> TRUE, lockMovementX |-> TRUE]

\* the contents the templates row of the edited template may hold at first
InitContents == {NoContent, [objects |-> <<StoredRect>>]}

----------------------------------------------------------------------------

Init ==
    /\ objects = <<>>
    /\ activeObject = None
    /\ isDragging = FALSE
    /\ lastPosX = 0
    /\ lastPosY = 0
    /\ selectedObject = Null
    /\ toasts = <<>>
    /\ uploads = 0
    /\ content = NoContent
    /\ thumbnail = NoThumbnail
    /\ canvasSize = <<DefaultCanvasWidth, DefaultCanvasHeight>>
    /\ session = "ready"
    /\ gesture = NoGesture

Next ==
    \/ \E p \in Points : MouseDown(p)
    \/ \E p \in Points : MouseMove(p)
    \/ MouseUp
    \/ AddText
    \/ \E shapeType \in {"rectangle", "circle"} : AddShape(shapeType)
    \/ HandleImageUpload
    \/ \E size \in ImageSizes : ImageLoaded(size)
    \/ ImageFailed
    \/ DeleteSelected

Spec == Init /\ [][Next]_vars

\* the Editor opened on a template row, edited by the tool actions, saved and
\* opened again
InitCodec ==
    /\ objects = <<>>
    /\ activeObject = None
    /\ isDragging = FALSE
    /\ lastPosX = 0
    /\ lastPosY = 0
    /\ selectedObject = Null
    /\ toasts = <<>>
    /\ uploads = 0
    /\ content \in InitContents
    /\ thumbnail = NoThumbnail
    /\ canvasSize = <<DefaultCanvasWidth, DefaultCanvasHeight>>
    /\ session = "loading"
    /\ gesture = NoGesture

NextCodec ==
    \/ LoadTemplate
    \/ LoadTemplateError
    \/ OpenEditor
    \/ HandleSave
    \/ HandleSaveError
    \/ AddText
    \/ \E shapeType \in {"rectangle", "circle"} : AddShape(shapeType)
    \/ HandleImageUpload
    \/ \E size \in ImageSizes : ImageLoaded(size)
    \/ ImageFailed
    \/ DeleteSelected

SpecCodec == InitCodec /\ [][NextCodec]_vars

\* the Editor opened on a template row that has an SVG thumbnail and no content
InitImport ==
    /\ objects = <<>>
    /\ activeObject = None
    /\ isDragging = FALSE
    /\ lastPosX = 0
    /\ lastPosY = 0
    /\ selectedObject = Null
    /\ toasts = <<>>
    /\ uploads = 0
    /\ content = NoContent
    /\ thumbnail \in SvgDocuments
    /\ canvasSize \in CanvasSizes
    /\ session = "loading"
    /\ gesture = NoGesture

NextImport ==
    \/ \E fetched \in BOOLEAN : LoadTemplateSvg(fetched)
    \/ OpenEditor

SpecImport == InitImport /\ [][NextImport]_vars

\* the Editor opened on a template row of either kind, where the effect may be
\* cleaned up while the row is loading
\* the Editor edited by the tool actions and downloaded
NextDownload ==
    \/ AddText
    \/ \E shapeType \in {"rectangle", "circle"} : AddShape(shapeType)
    \/ HandleImageUpload
    \/ \E size \in ImageSizes : ImageLoaded(size)
    \/ ImageFailed
    \/ DeleteSelected
    \/ \E context \in BOOLEAN, blob \in {"image/png", Null} : HandleDownload(context, blob)

SpecDownload == Init /\ [][NextDownload]_vars

\* the templates rows the route may change to
TemplateRows == {[content |-> c, thumbnail |-> NoThumbnail] : c \in InitContents}

InitCancel == InitCodec \/ InitImport

NextCancel ==
    \/ Cleanup
    \/ LoadTemplate
    \/ LoadTemplateError
    \/ \E fetched \in BOOLEAN : LoadTemplateSvg(fetched)
    \/ \E row \in TemplateRows : ChangeTemplate(row)
    \/ OpenEditor

SpecCancel == InitCancel /\ [][NextCancel]_vars

\* the values a fill may take in the style attribute and as an attribute, and
\* the values a numeric style attribute may take, malformed ones included
StyleFills == {Null, "none", "blue"}
AttrFills == {Null, "none", "red"}
Numerics == {Null, "0.5", "half"}
Widths == {Null, "2", "wide"}

\* a rect in each combination of style declarations; the computed style gives a
\* stroke-width or, for an element that is not rendered, the empty string
StyledRects ==
    {[RectElement EXCEPT !.style.fill = styleFill, !.attrs.fill = attrFill,
                         !.style.strokeWidth = styleWidth,
                         !.attrs.strokeWidth = attrWidth,
                         !.attrs.opacity = numeric, !.attrs.fillOpacity = numeric,
                         !.computed.strokeWidth = computedWidth] :
       styleFill \in StyleFills, attrFill \in AttrFills,
       styleWidth \in {Null, "wide"}, attrWidth \in Widths,
       numeric \in Numerics, computedWidth \in {"", "1"}}

\* the documents of one such rect
StyleDocuments ==
    {Set(Element("svg", NoGeometry, <<>>, NoAttrs, Shown, <<rect>>),
         [width |-> R(200), height |-> R(100), viewBox |-> <<>>]) :
       rect \in StyledRects}

\* the Editor opened on a template row whose SVG thumbnail is one styled rect
InitStyle ==
    /\ objects = <<>>
    /\ activeObject = None
    /\ isDragging = FALSE
    /\ lastPosX = 0
    /\ lastPosY = 0
    /\ selectedObject = Null
    /\ toasts = <<>>
    /\ uploads = 0
    /\ content = NoContent
    /\ thumbnail \in StyleDocuments
    /\ canvasSize = <<DefaultCanvasWidth, DefaultCanvasHeight>>
    /\ session = "loading"
    /\ gesture = NoGesture

SpecStyle == InitStyle /\ [][NextImport]_vars

\* the tokens of the transform attributes of the model
TransformTokens == {Token("translate", <<R(10), R(0)>>), Token("scale", <<R(2)>>),
                    Token("rotate", <<R(90)>>)}

\* a rect, a circle and a text with each transform of up to MaxTokens tokens
TransformedLeaves ==
    {[leaf EXCEPT !.transform = transform] :
       leaf \in {RectElement, CircleElement, TextElement},
       transform \in SeqsUpTo(TransformTokens, MaxTokens)}

\* the documents of one such leaf
TransformDocuments ==
    {Set(Element("svg", NoGeometry, <<>>, NoAttrs, Shown, <<leaf>>),
         [width |-> R(200), height |-> R(100), viewBox |-> <<>>]) :
       leaf \in TransformedLeaves}

\* the Editor opened on a template row whose SVG thumbnail is one leaf with a
\* transform attribute or without one
InitTransform ==
    /\ objects = <<>>
    /\ activeObject = None
    /\ isDragging = FALSE
    /\ lastPosX = 0
    /\ lastPosY = 0
    /\ selectedObject = Null
    /\ toasts = <<>>
    /\ uploads = 0
    /\ content = NoContent
    /\ thumbnail \in TransformDocuments
    /\ canvasSize \in CanvasSizes
    /\ session = "loading"
    /\ gesture = NoGesture

SpecTransform == InitTransform /\ [][NextImport]_vars

----------------------------------------------------------------------------
(* Claims on the pointer handlers *)

\* C1: from a pointer-down that hits node A, through any number of pointer-moves,
\* to the pointer-up, A's (left, top) is its position at the pointer-down plus
\* the pointer's total displacement, and no pointer event of the gesture
\* changes any other node.
C1_DragMovesOnlyTarget ==
    [][/\ gesture'.id # None =>
            /\ gesture'.id \in Ids(objects')
            /\ Node(objects', gesture'.id).left
                 = Add(gesture'.left, R(lastPosX' - gesture'.startX))
            /\ Node(objects', gesture'.id).top
                 = Add(gesture'.top, R(lastPosY' - gesture'.startY))
       /\ (gesture.id # None /\ ((\E p \in Points : MouseMove(p)) \/ MouseUp)) =>
            /\ DOMAIN objects' = DOMAIN objects
            /\ \A i \in DOMAIN objects :
                   objects[i].id # gesture.id => objects'[i] = objects[i]
            /\ MouseUp =>
                   /\ Node(objects', gesture.id).left
                        = Add(gesture.left, R(lastPosX - gesture.startX))
                   /\ Node(objects', gesture.id).top
                        = Add(gesture.top, R(lastPosY - gesture.startY))
      ]_vars

\* a drag in progress has moved the hit node while another node is on the canvas
C1_Witness ==
    /\ gesture.id # None
    /\ Len(objects) >= 2
    /\ lastPosX # gesture.startX
    /\ lastPosY # gesture.startY
    /\ Node(objects, gesture.id).left # gesture.left

\* C2: a pointer-down that hits no node clears the selection and leaves the
\* controller Idle.
C2_MissClearsSelection ==
    [][\A p \in Points :
          (MouseDown(p) /\ FindTarget(objects, p) = None) =>
              (activeObject' = None /\ ~isDragging')]_vars

\* C3: a pointer-down in Idle that hits a node makes that node the selection,
\* records the pointer-down point as lastPoint and starts Dragging.
C3_HitStartsDrag ==
    [][\A p \in Points :
          (MouseDown(p) /\ ~isDragging /\ FindTarget(objects, p) # None) =>
              /\ activeObject' = FindTarget(objects, p)
              /\ lastPosX' = p[1]
              /\ lastPosY' = p[2]
              /\ isDragging']_vars

\* a drag started from Idle on the topmost of two nodes
C3_Witness ==
    /\ isDragging
    /\ gesture.id # None
    /\ activeObject = gesture.id
    /\ lastPosX = gesture.startX
    /\ Len(objects) >= 2

\* C4: a pointer-up while Dragging leads to Idle and keeps the selection; in
\* Idle no pointer-move changes an object, and Idle is left only by a
\* pointer-down that hits a node.
C4_UpEndsDrag ==
    [][/\ (MouseUp /\ isDragging) => (~isDragging' /\ activeObject' = activeObject)
       /\ ~isDragging => \A p \in Points : MouseMove(p) => objects' = objects
       /\ (~isDragging /\ isDragging') =>
              \E p \in Points : MouseDown(p) /\ FindTarget(objects, p) # None
      ]_vars

\* Idle after a drag that moved the node which is still the selection
C4_Witness ==
    /\ ~isDragging
    /\ activeObject # None
    /\ activeObject \in Ids(objects)
    /\ toasts = <<>>
    /\ lastPosX = 20
    /\ ContainsPoint(Node(objects, activeObject), <<20, 40>>)

\* C5: a pointer-down while Dragging acts as a pointer-up followed by the
\* hit-test at the new point: no hit ends Idle, a hit on B drags B from there.
C5_DownWhileDragging ==
    [][\A p \in Points :
          (MouseDown(p) /\ isDragging) =>
              IF FindTarget(objects, p) = None
              THEN ~isDragging'
              ELSE /\ isDragging'
                   /\ activeObject' = FindTarget(objects, p)
                   /\ lastPosX' = p[1]
                   /\ lastPosY' = p[2]]_vars

\* C6: deleteSelected with a selection removes exactly the selected node and
\* leaves no selection; with nothing selected it changes neither the objects nor
\* the selection and reports 'Nothing Selected'.
C6_DeleteSelected ==
    [][DeleteSelected =>
          IF activeObject # None
          THEN /\ Len(objects') = Len(objects) - 1
               /\ objects' = SelectSeq(objects, LAMBDA o : o.id # activeObject)
               /\ activeObject' = None
          ELSE /\ objects' = objects
               /\ activeObject' = None
               /\ toasts' = <<"Nothing Selected">>]_vars

\* the selected one of two nodes was deleted while a drag was going on
C6_Witness ==
    /\ toasts = <<"Object Deleted">>
    /\ activeObject = None
    /\ isDragging
    /\ Len(objects) = 1

\* C7: at most one node is the active selection, and it is on the canvas.
C7_SelectionOnCanvas ==
    activeObject # None =>
        Cardinality({i \in DOMAIN objects : objects[i].id = activeObject}) = 1

\* a node is selected after another one was deleted
C7_Witness ==
    /\ activeObject # None
    /\ Len(objects) = 1
    /\ objects[1].id = 2

----------------------------------------------------------------------------
(* Claims on saving and loading *)

\* the geometry, style and transform properties and the interaction flags of a
\* document node
DocumentProperties ==
    {"type", "left", "top", "width", "height", "scaleX", "scaleY", "angle",
     "fill", "stroke", "strokeWidth", "radius", "text",
     "selectable", "evented", "lockMovementX", "lockMovementY", "lockRotation",
     "lockScalingX", "lockScalingY", "lockUniScaling"}

\* the structure of a document: its nodes in order, each with its document
\* properties
Structure(objs) ==
    [i \in DOMAIN objs |-> [k \in DocumentProperties \cap DOMAIN objs[i] |-> objs[i][k]]]

\* C8: saving with handleSave and loading the saved content with loadTemplate
\* gives a document structurally equal to the saved one: the saved content has
\* the nodes of the canvas in order with their geometry, style, transform and
\* interaction flags, and the canvas loaded from a stored content has the nodes
\* of that content with the same values, a flag stored as selectable = false
\* or as a set lock included.
C8_SaveLoadRoundTrip ==
    [][/\ HandleSave =>
            /\ content' # NoContent
            /\ Structure(content'.objects) = Structure(objects)
       /\ (LoadTemplate /\ content # NoContent) =>
            Structure(objects') = Structure(content.objects)]_vars

\* the control and border styling properties of an object
ControlProperties ==
    {"hasControls", "hasBorders", "hasRotatingPoint", "cornerColor", "cornerSize",
     "transparentCorners", "borderColor", "borderScaleFactor"}

\* C9: the saved document carries, besides type, geometry, style and
\* transform, exactly the flags selectable, evented and the lock flags; no
\* control or border styling property is saved.
C9_NoControlPropertiesSaved ==
    [][HandleSave =>
          \A i \in DOMAIN content'.objects :
              DOMAIN content'.objects[i] \cap ControlProperties = {}]_vars

\* the Properties panel with the Delete button is rendered
PanelRendered == selectedObject # Null

\* C24: after any sequence of pointer events, addText, addShape, image uploads
\* and deleteSelected, the selectedObject of the React state is null, so the
\* Properties panel with the Delete button is not rendered, also while a node
\* is the active object of the canvas.
C24_PanelNeverRendered == selectedObject = Null /\ ~PanelRendered

\* a pointer-down has made the lower of two nodes the active object, and no
\* node is selected in the React state
C24_Witness ==
    /\ Len(objects) = 2
    /\ isDragging
    /\ activeObject = objects[1].id
    /\ selectedObject = Null

\* the nodes a pointer-move would move
MovedNodes(objs, active, dragging) ==
    IF dragging /\ active # None
    THEN {objs[i].id : i \in {j \in DOMAIN objs :
                                MoveBy(objs, active, R(1), R(1))[j] # objs[j]}}
    ELSE {}

\* addText, addShape, the completion of an image upload or deleteSelected runs
ToolStep ==
    \/ AddText
    \/ \E shapeType \in {"rectangle", "circle"} : AddShape(shapeType)
    \/ \E size \in ImageSizes : ImageLoaded(size)
    \/ ImageFailed
    \/ DeleteSelected

\* C27: while a drag is in progress, the node a pointer-move moves is the node
\* hit by the pointer-down that started the drag, also after addText, addShape,
\* the completion of an image upload or deleteSelected has run in between.
C27_DragKeepsTarget ==
    [][(isDragging /\ gesture.id # None /\ ToolStep) =>
          MovedNodes(objects', activeObject', isDragging') \subseteq {gesture.id}]_vars

----------------------------------------------------------------------------
(* Claims on the SVG import *)

\* the objects the traversal of the thumbnail produces
Produced == ProcessElement(thumbnail, FitScale(thumbnail, canvasSize))

\* the type of the object made for a drawable element
TypeOf(tag) == IF tag = "text" THEN "textbox" ELSE tag

\* a shown rect, circle or text, or a shown path with data
DrawableLeaf(element) ==
    /\ element.tag \in {"path", "rect", "circle", "text"}
    /\ element.computed.display # "none"
    /\ element.computed.visibility # "hidden"
    /\ element.tag = "path" => element.d # Null

\* every child of the root is a drawable leaf
Flat(svgElement) ==
    \A i \in DOMAIN svgElement.children : DrawableLeaf(svgElement.children[i])

\* C10: when the traversal produces more than one node, the import puts
\* exactly one group on the canvas, which holds the produced nodes in traversal
\* order, and the centre of the group's scaled bounding box is the centre of
\* the canvas.
C10_ImportGroupsAndCentres ==
    [][(LoadTemplateSvg(TRUE) /\ thumbnail.tag = "svg" /\ Len(Produced) > 1) =>
          /\ Len(objects') = Len(objects) + 1
          /\ LET group == objects'[Len(objects')] IN
             /\ group.type = "group"
             /\ group.objects = Produced
             /\ Flat(thumbnail) =>
                    /\ Len(group.objects) = Len(thumbnail.children)
                    /\ \A i \in DOMAIN group.objects :
                           group.objects[i].type = TypeOf(thumbnail.children[i].tag)
             /\ Add(group.left, Half(Mul(group.width, group.scaleX)))
                  = Half(R(canvasSize[1]))
             /\ Add(group.top, Half(Mul(group.height, group.scaleY)))
                  = Half(R(canvasSize[2]))]_vars

\* a rect and a circle were imported as one scaled group of two
C10_Witness ==
    /\ session = "ready"
    /\ toasts = <<"Editor Ready">>
    /\ Len(objects) = 1
    /\ objects[1].type = "group"
    /\ Len(objects[1].objects) = 2
    /\ objects[1].objects[1].type = "rect"
    /\ objects[1].objects[2].type = "circle"
    /\ objects[1].scaleX # R(1)
    /\ thumbnail.children = <<RectElement, CircleElement>>

\* the topmost object of the canvas
Last(objs) == objs[Len(objs)]

\* loadTemplate has fetched and parsed an SVG thumbnail and converted it
ImportRan == LoadTemplateSvg(TRUE) /\ thumbnail.tag = "svg"

\* the objects the import has put on a canvas that was empty, a group opened
ImportedObjects(objs) == IF objs = <<>> THEN <<>> ELSE Last(objs).objects

\* their types
ImportedTypes(objs) ==
    [i \in DOMAIN ImportedObjects(objs) |-> ImportedObjects(objs)[i].type]

\* C11: when the traversal produces exactly one node, the import puts that node
\* itself on the canvas, not a group around it.
C11_SingleNodeUnwrapped ==
    [][(ImportRan /\ Len(Produced) = 1) =>
          /\ Len(objects') = Len(objects) + 1
          /\ Last(objects').type # "group"
          /\ Last(objects').type = Produced[1].type]_vars

\* C12: when the traversal produces no node, the caller is warned, the canvas
\* objects stay as they were and the editor's initialization completes.
C12_EmptyImportWarns ==
    [][(ImportRan /\ Len(Produced) = 0) =>
          /\ toasts' = <<"Warning", "Editor Ready">>
          /\ objects' = objects
          /\ session' = "ready"]_vars

\* a document of an ellipse and a hidden rect was imported
C12_Witness ==
    /\ session = "ready"
    /\ toasts = <<"Warning", "Editor Ready">>
    /\ objects = <<>>
    /\ thumbnail.tag = "svg"
    /\ thumbnail.children = <<EllipseElement, HiddenRectElement>>

\* C13: when the root element of the parsed markup is not svg, the import fails
\* with an error, and the canvas objects stay as they were.
C13_NonSvgRootFails ==
    [][(LoadTemplateSvg(TRUE) /\ thumbnail.tag # "svg") =>
          /\ toasts' = <<"SVG Conversion Error", "Editor Ready">>
          /\ objects' = objects]_vars

\* a document with an html root around a rect was refused
C13_Witness ==
    /\ session = "ready"
    /\ toasts = <<"SVG Conversion Error", "Editor Ready">>
    /\ objects = <<>>
    /\ thumbnail.tag = "html"
    /\ thumbnail.computed = Shown
    /\ thumbnail.children = <<RectElement>>

\* min(targetWidth / width, targetHeight / height) * 0.8
FitTo(width, height, canvas) ==
    Mul(Min(Div(R(canvas[1]), width), Div(R(canvas[2]), height)), Frac(8, 10))

\* the scale by the rule of C14: from the viewBox when it has four numbers with
\* a usable width and height, else from the width and height attributes when
\* they exist, else 1
ClaimedScale(svgElement, canvas) ==
    IF /\ Len(svgElement.viewBox) = 4
       /\ Truthy(svgElement.viewBox[3])
       /\ Truthy(svgElement.viewBox[4])
    THEN FitTo(svgElement.viewBox[3], svgElement.viewBox[4], canvas)
    ELSE IF Truthy(svgElement.width) /\ Truthy(svgElement.height)
    THEN FitTo(svgElement.width, svgElement.height, canvas)
    ELSE R(1)

\* C14: the scale of the import is min(targetWidth/width, targetHeight/height)
\* * 0.8 over the viewBox when one is present as four usable numbers, else over
\* the width and height attributes when they exist, else 1.
C14_ScaleFromViewBoxOrSize ==
    [][(ImportRan /\ Len(Produced) > 0) =>
          /\ Last(objects').scaleX = ClaimedScale(thumbnail, canvasSize)
          /\ Last(objects').scaleY = ClaimedScale(thumbnail, canvasSize)]_vars

\* C15: for a document with a viewBox or a width and height, the imported
\* content after all scaling is no larger than 0.8 of the canvas in each axis.
C15_ContentWithinMargin ==
    [][(/\ ImportRan
        /\ Len(Produced) > 0
        /\ \/ thumbnail.viewBox # <<>>
           \/ Truthy(thumbnail.width) /\ Truthy(thumbnail.height)) =>
          /\ Le(Mul(Last(objects').width, Last(objects').scaleX),
                Mul(Frac(8, 10), R(canvasSize[1])))
          /\ Le(Mul(Last(objects').height, Last(objects').scaleY),
                Mul(Frac(8, 10), R(canvasSize[2])))]_vars

\* the element or one of its ancestors up to the root is skipped as hidden
Hidden(element) ==
    element.computed.display = "none" \/ element.computed.visibility = "hidden"

\* the types of the nodes expected of an element in document order: one per
\* shown leaf, of a path only with data when needData
RECURSIVE Leaves(_, _)
Leaves(element, needData) ==
    LET RECURSIVE Of(_)
        Of(children) == IF children = <<>> THEN <<>>
                        ELSE Leaves(Head(children), needData) \o Of(Tail(children))
    IN  IF Hidden(element) THEN <<>>
        ELSE IF element.tag \in {"defs", "g", "svg"} THEN Of(element.children)
        ELSE IF element.tag = "path" /\ needData /\ element.d = Null THEN <<>>
        ELSE IF element.tag \in {"path", "rect", "circle", "text"}
        THEN <<TypeOf(element.tag)>>
        ELSE <<>>

\* C16: every shown path, rect, circle and text produces exactly one node, in
\* document order; defs, g and the root produce none and are entered; any other
\* element produces none and raises no error.
C16_EveryLeafOneNode ==
    [][ImportRan =>
          /\ ImportedTypes(objects') = Leaves(thumbnail, FALSE)
          /\ toasts' # <<"SVG Conversion Error", "Editor Ready">>]_vars

\* C16 as amended: every shown rect, circle and text, and every shown path that
\* has path data, produces exactly one node, in document order; a path without
\* data produces none; defs, g and the root produce none and are entered; any
\* other element produces none and raises no error.
C16_EveryDrawableLeafOneNode ==
    [][ImportRan =>
          /\ ImportedTypes(objects') = Leaves(thumbnail, TRUE)
          /\ toasts' # <<"SVG Conversion Error", "Editor Ready">>]_vars

\* a g of a circle and a path, followed by a rect, was imported as three nodes
C16_Witness ==
    /\ session = "ready"
    /\ thumbnail.tag = "svg"
    /\ thumbnail.children = <<GElement, RectElement>>
    /\ Len(objects) = 1
    /\ ImportedTypes(objects) = <<"circle", "path", "rect">>

\* the document without the subtrees the traversal is to skip
WithoutHidden(svgElement) ==
    IF Hidden(svgElement)
    THEN [svgElement EXCEPT !.children = <<>>]
    ELSE [svgElement EXCEPT !.children = SelectSeq(@, LAMBDA c : ~Hidden(c))]

\* C17: an element with display:none or visibility:hidden produces no node, and
\* none of its descendants does; a document whose elements are all hidden is
\* imported as one without drawable content.
C17_HiddenSkipped ==
    [][ImportRan =>
          /\ ImportedObjects(objects')
               = ProcessElement([WithoutHidden(thumbnail) EXCEPT !.computed = Shown],
                                FitScale(thumbnail, canvasSize))
          /\ (\/ Hidden(thumbnail)
              \/ \A i \in DOMAIN thumbnail.children : Hidden(thumbnail.children[i])) =>
                 /\ objects' = objects
                 /\ toasts' = <<"Warning", "Editor Ready">>]_vars

\* a hidden g around a rect, followed by a circle, was imported as the circle
C17_Witness ==
    /\ session = "ready"
    /\ thumbnail.tag = "svg"
    /\ thumbnail.children = <<HiddenGElement, CircleElement>>
    /\ Len(objects) = 1
    /\ ImportedTypes(objects) = <<"circle">>

\* the first of the three strings that is declared
First(a, b, c) == Or(a, Or(b, c))

\* a paint by the rule of C20, none drawn as transparent
ClaimedPaint(style, attr, computed) ==
    IF First(style, attr, computed) = "none" THEN "transparent"
    ELSE First(style, attr, computed)

\* C20: each of fill, stroke, stroke-width, opacity and fill-opacity is taken
\* from the style attribute when it declares it, else from the presentation
\* attribute, else from the computed style, else it is the default.
C20_StyleResolutionOrder ==
    [][(ImportRan /\ ~Hidden(thumbnail) /\ Flat(thumbnail)) =>
          \A i \in DOMAIN thumbnail.children :
              LET e == thumbnail.children[i]
                  obj == ImportedObjects(objects')[i]
              IN  /\ obj.fill = ClaimedPaint(e.style.fill, e.attrs.fill, e.computed.fill)
                  /\ obj.stroke
                       = ClaimedPaint(e.style.stroke, e.attrs.stroke, e.computed.stroke)
                  /\ obj.strokeWidth
                       = NumOr(ParseFloat(First(e.style.strokeWidth, e.attrs.strokeWidth,
                                                e.computed.strokeWidth)), R(0))
                  /\ obj.opacity
                       = NumOr(ParseFloat(First(e.style.opacity, e.attrs.opacity,
                                                e.computed.opacity)), R(1))
                  /\ obj.fillOpacity
                       = NumOr(ParseFloat(First(e.style.fillOpacity, e.attrs.fillOpacity,
                                                e.computed.fillOpacity)), R(1))]_vars

----------------------------------------------------------------------------
(* Claims on the image upload *)

\* C18: when the upload, the signed URL or the image load of handleImageUpload
\* fails, the canvas objects and the selection stay as they were and an error
\* is reported.
C18_FailedUploadChangesNothing ==
    [][ImageFailed =>
          /\ objects' = objects
          /\ activeObject' = activeObject
          /\ toasts' = <<"Upload Error">>]_vars

\* an upload failed while a node was on the canvas and selected
C18_Witness ==
    /\ toasts = <<"Upload Error">>
    /\ Len(objects) = 1
    /\ activeObject = objects[1].id

----------------------------------------------------------------------------
(* Claims on cancellation *)

\* C19: once the effect is cleaned up while the load or import is pending, the
\* result is discarded: no object is added to a canvas afterwards.
C19_AbandonedLoadAddsNothing ==
    [][session = "disposed" => objects' = objects]_vars

\* C29: convertSVGToFabric returns no object or one group, so loadTemplate adds
\* what it returns without regrouping, and a successful import adds exactly one
\* object to the canvas.
C29_AtMostOneReturned ==
    [][ImportRan =>
          LET fabricObjects == ConvertSVGToFabric(thumbnail, canvasSize) IN
          /\ Len(fabricObjects) \in {0, 1}
          /\ Len(fabricObjects) = 1 => fabricObjects[1].type = "group"
          /\ objects' = CanvasAddAll(objects, fabricObjects)
          /\ toasts' = <<"Editor Ready">> => Len(objects') = Len(objects) + 1]_vars

\* a rect followed by a g of a circle and a path was imported as one group of
\* three
C29_Witness ==
    /\ session = "ready"
    /\ toasts = <<"Editor Ready">>
    /\ thumbnail.tag = "svg"
    /\ thumbnail.children = <<RectElement, GElement>>
    /\ Len(objects) = 1
    /\ objects[1].type = "group"
    /\ Len(objects[1].objects) = 3

----------------------------------------------------------------------------
(* Claims on the resolved style *)

\* the rect of a document of one element, and the node imported for it
StyledElement == thumbnail.children[1]
StyledNode(objs) == ImportedObjects(objs)[1]

\* the value is declared and is not a number
Malformed(str) == StrTruthy(str) /\ IsNaN(ParseFloat(str))

\* C21: whenever the winning source of fill has the value "none", whether it is
\* the style attribute or the presentation attribute, the resolved fill is
\* transparent.
C21_NoneIsTransparent ==
    [][(ImportRan /\ Len(thumbnail.children) = 1
        /\ Or(StyledElement.style.fill, StyledElement.attrs.fill) = "none") =>
          StyledNode(objects').fill = "transparent"]_vars

\* C22: a missing stroke-width resolves to 0, and every malformed numeric style
\* attribute, stroke-width, opacity or fill-opacity alike, resolves to 0; no
\* such value makes the import fail.
C22_MalformedResolveToZero ==
    [][(ImportRan /\ Len(thumbnail.children) = 1) =>
          LET e == StyledElement
              obj == StyledNode(objects')
              width == First(e.style.strokeWidth, e.attrs.strokeWidth,
                             e.computed.strokeWidth)
          IN  /\ toasts' = <<"Editor Ready">>
              /\ (e.style.strokeWidth = Null /\ e.attrs.strokeWidth = Null) =>
                     obj.strokeWidth = R(0)
              /\ Malformed(width) => obj.strokeWidth = R(0)
              /\ Malformed(First(e.style.opacity, e.attrs.opacity, e.computed.opacity)) =>
                     obj.opacity = R(0)
              /\ Malformed(First(e.style.fillOpacity, e.attrs.fillOpacity,
                                 e.computed.fillOpacity)) =>
                     obj.fillOpacity = R(0)]_vars

\* C22 as amended: a stroke-width that neither the element nor its computed
\* style declares resolves to 0, and a malformed stroke-width resolves to 0; a
\* malformed opacity or fill-opacity resolves to 1; no such value makes the
\* import fail.
C22_MalformedResolveToDefault ==
    [][(ImportRan /\ Len(thumbnail.children) = 1) =>
          LET e == StyledElement
              obj == StyledNode(objects')
              width == First(e.style.strokeWidth, e.attrs.strokeWidth,
                             e.computed.strokeWidth)
          IN  /\ toasts' = <<"Editor Ready">>
              /\ ~StrTruthy(width) => obj.strokeWidth = R(0)
              /\ Malformed(width) => obj.strokeWidth = R(0)
              /\ Malformed(First(e.style.opacity, e.attrs.opacity, e.computed.opacity)) =>
                     obj.opacity = R(1)
              /\ Malformed(First(e.style.fillOpacity, e.attrs.fillOpacity,
                                 e.computed.fillOpacity)) =>
                     obj.fillOpacity = R(1)]_vars

\* a rect with a malformed stroke-width, opacity and fill-opacity was imported
C22_Witness ==
    /\ session = "ready"
    /\ toasts = <<"Editor Ready">>
    /\ Len(thumbnail.children) = 1
    /\ StyledElement.attrs.strokeWidth = "wide"
    /\ StyledElement.attrs.opacity = "half"
    /\ StyledElement.attrs.fillOpacity = "half"
    /\ Len(objects) = 1
    /\ StyledNode(objects).strokeWidth = R(0)
    /\ StyledNode(objects).opacity = R(1)
    /\ StyledNode(objects).fillOpacity = R(1)

----------------------------------------------------------------------------
(* Claims on transforms and positions *)

\* the matrix of one token: translate(x, y), scale(s) and rotate(angle)
TokenMatrix(t) ==
    CASE t.name = "translate" -> [Identity EXCEPT !.e = t.args[1], !.f = t.args[2]]
      [] t.name = "scale" -> [Identity EXCEPT !.a = t.args[1], !.d = t.args[1]]
      [] t.name = "rotate" ->
           [Identity EXCEPT !.a = Cos(t.args[1]), !.b = Sin(t.args[1]),
                            !.c = Neg(Sin(t.args[1])), !.d = Cos(t.args[1])]

\* the matrix product m n
Product(m, n) ==
    [a |-> Add(Mul(m.a, n.a), Mul(m.c, n.b)),
     b |-> Add(Mul(m.b, n.a), Mul(m.d, n.b)),
     c |-> Add(Mul(m.a, n.c), Mul(m.c, n.d)),
     d |-> Add(Mul(m.b, n.c), Mul(m.d, n.d)),
     e |-> Add(Add(Mul(m.a, n.e), Mul(m.c, n.f)), m.e),
     f |-> Add(Add(Mul(m.b, n.e), Mul(m.d, n.f)), m.f)]

\* the product of the tokens' matrices, left to right
RECURSIVE ProductOf(_, _)
ProductOf(matrix, ts) ==
    IF ts = <<>> THEN matrix
    ELSE ProductOf(Product(matrix, TokenMatrix(Head(ts))), Tail(ts))

\* C23: parsing a transform made of translate, scale and rotate tokens yields
\* the product of the tokens' matrices taken left to right, and the imported
\* node takes its scale and position from that matrix.
C23_TransformIsProduct ==
    [][(ImportRan /\ Len(thumbnail.children) = 1) =>
          LET matrix == ProductOf(Identity, StyledElement.transform)
              scale == FitScale(thumbnail, canvasSize)
          IN  /\ ParseTransform(StyledElement.transform) = matrix
              /\ StyledNode(objects').scaleX = Mul(matrix.a, scale)
              /\ StyledNode(objects').left = Mul(matrix.e, scale)
              /\ StyledNode(objects').top = Mul(matrix.f, scale)]_vars

\* the left and top the constructor takes from the geometry attributes
GeometryLeft(element) == Constructed(element).left
GeometryTop(element) == Constructed(element).top

\* C30: an imported leaf without a transform attribute keeps the position of
\* its geometry attributes, as they are or scaled by the global scale, and its
\* scale is the global scale.
C30_PositionFromGeometry ==
    [][(ImportRan /\ Len(thumbnail.children) = 1 /\ StyledElement.transform = <<>>) =>
          LET scale == FitScale(thumbnail, canvasSize)
              obj == StyledNode(objects')
          IN  /\ obj.scaleX = scale
              /\ obj.scaleY = scale
              /\ obj.left \in {GeometryLeft(StyledElement),
                               Mul(GeometryLeft(StyledElement), scale)}
              /\ obj.top \in {GeometryTop(StyledElement),
                              Mul(GeometryTop(StyledElement), scale)}]_vars

----------------------------------------------------------------------------
(* Claims on the templateId and the loading overlay *)

\* the loading overlay is shown and the canvas hidden
IsLoading == session # "ready"

\* initializeFabric has run to its end
Settled == session \in {"ready", "abandoned"}

\* C25: every change of templateId while the Editor stays mounted starts
\* loadTemplate for the new templateId.
C25_ChangeStartsLoad ==
    [][(\E row \in TemplateRows : ChangeTemplate(row)) => session' = "loading"]_vars

\* C26: once the asynchronous initialization has settled, whether loadTemplate
\* succeeded or failed, isLoading is false and the loading overlay is removed,
\* also when the templateId changed while the load was in flight.
C26_SettledEndsLoading == Settled => ~IsLoading

----------------------------------------------------------------------------
(* Claims on the download *)

\* C28: every call of handleDownload with an initialized canvas ends with
\* exactly one report, 'Download Complete' or 'Download Error', also when
\* toBlob yields no blob.
C28_DownloadReports ==
    [][(\E context \in BOOLEAN, blob \in {"image/png", Null} :
            HandleDownload(context, blob)) =>
          toasts' \in {<<"Download Complete">>, <<"Download Error">>}]_vars

====
